---- MODULE Spec2Model ----
(***************************************************************************)
(* The MDX binary parser of src-tauri/src/mdx_parser.rs as a state         *)
(* machine over a byte buffer and a cursor.                                *)
(*                                                                         *)
(* Representation.                                                         *)
(*   - data is the input Vec<u8>, a sequence of bytes 0..255; pos is the   *)
(*     cursor position (0-based, as Cursor::position()).                   *)
(*   - Option<T> is a sequence: None == << >>, Some(v) == <<v>>.           *)
(*   - A String is the sequence of its UTF-8 bytes; from_utf8_lossy is     *)
(*     computed: every maximal invalid part of the wire bytes becomes      *)
(*     U+FFFD (EF BF BD).                                                  *)
(*   - A run that returned Err keeps the cursor in pos: where the failing  *)
(*     read or check left it.                                              *)
(*   - model.nodes, a Vec<Option<Node>> that one object_id can make        *)
(*     2^32 - 1 entries long, is carried by its last index and its present *)
(*     entries, [top |-> ..., at |-> ...]: top is None for the empty Vec   *)
(*     and otherwise Some(k), at maps every index that holds Some(node) to *)
(*     the node, and every other index up to top holds None.  An index is  *)
(*     named by the i32 that `as u32` casts to it (2^32 - 2 by -2).        *)
(*   - A process that is aborted or killed, for want of memory, ends in    *)
(*     pc = "abort": parse does not return.                                *)
(*   - An f32 is carried as its IEEE-754 bit pattern read as a signed      *)
(*     32-bit integer (1.0 is 1065353216).                                 *)
(*   - TLC integers are 32-bit signed.  An i32 field is decoded exactly.   *)
(*     A u32 that is only stored (U32Field) is an integer below 2^31 and   *)
(*     the record [wide |-> v - 2^32] from 2^31 on.  A u32 that enters     *)
(*     cursor arithmetic (sizes, counts: U32At) is decoded exactly below   *)
(*     2^31; above, TLC stops with an overflow error, it never computes a  *)
(*     wrong position, and the inputs below keep such fields under 2^31.   *)
(***************************************************************************)
EXTENDS Integers, Sequences, FiniteSets, TLC

VARIABLES
    data,            \* MdxParser.cursor: the owned byte vector
    pos,             \* MdxParser.cursor: its position
    pc,              \* where parse_internal is: "start", "chunks", a record loop, or a result
    model,           \* the local `model` of parse_internal
    chunk_type,      \* the tag of the chunk dispatched last ("none" before the first)
    start_pos,       \* body start of that chunk (the local start_pos of the chunk parsers)
    size,            \* its chunk_size
    size_field_pos,  \* parse_materials / parse_geosets: size_field_pos of the record in hand
    rec_size,        \* material_size / geoset_size of that record
    cur,             \* the material (layers) or geoset under construction
    layers_left,     \* iterations left of `for _ in 0..layers_count`
    rec_count,       \* records completed in the current chunk (geoset_count, bone_count)
    prev,            \* result of an earlier parse() call kept by the caller (<< >> if none)
    stalls,          \* history: iterations of the record loop in hand that ended where they began
    headers,         \* history: the positions at which the framing loop has read a chunk header
    cache,           \* lib.rs: the content of the static MPQ_CACHE (Option<MpqCache>)
    call,            \* lib.rs: per thread, the command it runs and where it stands in it
    clears,          \* history: number of clear_mpq_cache calls that have returned
    calls            \* history: number of commands started

(* The state of the parser and the state of the archive cache. *)
parserVars == <<data, pos, pc, model, chunk_type, start_pos, size, size_field_pos,
                rec_size, cur, layers_left, rec_count, prev, stalls, headers>>

mpqVars == <<cache, call, clears, calls>>

vars == <<parserVars, mpqVars>>

---------------------------------------------------------------------------
(* Option<T> *)
None == << >>
Some(v) == <<v>>
IsSome(o) == Len(o) = 1
Unwrap(o) == o[1]

(* ASCII *)
Ascii(c) ==
    CASE c = "A" -> 65 [] c = "B" -> 66 [] c = "C" -> 67 [] c = "D" -> 68
      [] c = "E" -> 69 [] c = "F" -> 70 [] c = "G" -> 71 [] c = "H" -> 72
      [] c = "I" -> 73 [] c = "K" -> 75 [] c = "L" -> 76 [] c = "M" -> 77
      [] c = "N" -> 78 [] c = "O" -> 79 [] c = "P" -> 80 [] c = "Q" -> 81
      [] c = "R" -> 82 [] c = "S" -> 83 [] c = "T" -> 84 [] c = "U" -> 85
      [] c = "V" -> 86 [] c = "X" -> 88 [] c = "Y" -> 89 [] c = "Z" -> 90
      [] c = "2" -> 50 [] c = "b" -> 98

Tag(a, b, c, d) == <<Ascii(a), Ascii(b), Ascii(c), Ascii(d)>>

(* const MDX_MAGIC: &[u8; 4] = b"MDLX" *)
MDX_MAGIC == Tag("M", "D", "L", "X")

(* const NONE: i32 = -1 *)
NONE == -1

---------------------------------------------------------------------------
(* The byte reader: Cursor<Vec<u8>> with byteorder's little-endian reads.  *)
(* Every read of n bytes at position p succeeds exactly when p + n is      *)
(* within the buffer; nothing is ever read outside it.                     *)

CanRead(p, n) == p + n <= Len(data)

U8At(p) == data[p + 1]

U16At(p) == data[p + 1] + 256 * data[p + 2]

U32At(p) ==
    data[p + 1] + 256 * data[p + 2] + 65536 * data[p + 3] + 16777216 * data[p + 4]

I32At(p) ==
    data[p + 1] + 256 * data[p + 2] + 65536 * data[p + 3]
      + 16777216 * (IF data[p + 4] >= 128 THEN data[p + 4] - 256 ELSE data[p + 4])

F32At(p) == I32At(p)

(* `x as u32` of an i32.  A negative x becomes 2^32 + x, which is above    *)
(* every integer TLC can hold; it is carried as the record [wide |-> x].   *)
AsU32(x) == IF x >= 0 THEN x ELSE [wide |-> x]

(* read_u32 of a field that is stored and not computed with. *)
U32Field(p) == AsU32(I32At(p))

KeywordAt(p) == <<data[p + 1], data[p + 2], data[p + 3], data[p + 4]>>

BytesAt(p, n) == [i \in 1..n |-> data[p + i]]

RECURSIVE FirstNull(_, _)
FirstNull(bytes, i) ==
    IF i > Len(bytes) THEN Len(bytes)
    ELSE IF bytes[i] = 0 THEN i - 1
    ELSE FirstNull(bytes, i + 1)

(* One step of the UTF-8 decoder behind String::from_utf8_lossy, at index  *)
(* i of bytes: a valid scalar of len bytes, or a maximal invalid part of   *)
(* len bytes (the lead byte and the continuation bytes accepted before     *)
(* the first byte that cannot follow; a missing byte cannot follow).       *)
Utf8Step(bytes, i) ==
    LET c == bytes[i]
        width == IF c < 128 THEN 1
                 ELSE IF c >= 194 /\ c <= 223 THEN 2
                 ELSE IF c >= 224 /\ c <= 239 THEN 3
                 ELSE IF c >= 240 /\ c <= 244 THEN 4
                 ELSE 0
        lo == IF c = 224 THEN 160 ELSE IF c = 240 THEN 144 ELSE 128
        hi == IF c = 237 THEN 159 ELSE IF c = 244 THEN 143 ELSE 191
        Follows(j, l, h) == j <= Len(bytes) /\ bytes[j] >= l /\ bytes[j] <= h
    IN  IF width = 0 THEN [valid |-> FALSE, len |-> 1]
        ELSE IF width = 1 THEN [valid |-> TRUE, len |-> 1]
        ELSE IF ~Follows(i + 1, lo, hi) THEN [valid |-> FALSE, len |-> 1]
        ELSE IF width = 2 THEN [valid |-> TRUE, len |-> 2]
        ELSE IF ~Follows(i + 2, 128, 191) THEN [valid |-> FALSE, len |-> 2]
        ELSE IF width = 3 THEN [valid |-> TRUE, len |-> 3]
        ELSE IF ~Follows(i + 3, 128, 191) THEN [valid |-> FALSE, len |-> 3]
        ELSE [valid |-> TRUE, len |-> 4]

RECURSIVE Utf8LossyFrom(_, _)
Utf8LossyFrom(bytes, i) ==
    IF i > Len(bytes) THEN << >>
    ELSE LET step == Utf8Step(bytes, i)
         IN  (IF step.valid THEN SubSeq(bytes, i, i + step.len - 1)
                            ELSE <<239, 191, 189>>)
             \o Utf8LossyFrom(bytes, i + step.len)

(* String::from_utf8_lossy(bytes).to_string(), as the bytes of the String. *)
from_utf8_lossy(bytes) == Utf8LossyFrom(bytes, 1)

(* read_string: the n bytes are consumed, the string is the lossy decoding *)
(* of the prefix before the first null byte.                               *)
StringAt(p, n) ==
    LET bytes == BytesAt(p, n)
    IN  from_utf8_lossy(SubSeq(bytes, 1, FirstNull(bytes, 1)))

Vec3At(p) == [x |-> F32At(p), y |-> F32At(p + 4), z |-> F32At(p + 8)]

(* A failed read that leaves the cursor where the read began. *)
EofPosStay(p) == {p}

(* Where a failed read_exact that began at p leaves the cursor:            *)
(* Cursor::read_exact consumes what is left of the buffer, so the          *)
(* position after the failure is the length of the input, also when p is   *)
(* beyond it.                                                              *)
EofPos(p) == {Len(data)}

(* The start of the first of the consecutive reads of sizes[1], sizes[2],  *)
(* ... bytes from p that the buffer cannot serve; p + their sum when it    *)
(* serves them all.                                                        *)
RECURSIVE FirstShort(_, _)
FirstShort(p, sizes) ==
    IF sizes = << >> THEN p
    ELSE IF ~CanRead(p, Head(sizes)) THEN p
    ELSE FirstShort(p + Head(sizes), Tail(sizes))

(* The same for reads of `width` bytes from p repeated until one fails. *)
FirstShortItem(p, width) ==
    IF p > Len(data) THEN p ELSE p + width * ((Len(data) - p) \div width)

---------------------------------------------------------------------------
(* ChunkType::from_bytes: the tags with a typed parser in parse_internal;  *)
(* TXAN, CAMS, LITE, PREM, PRE2 and RIBB are recognised by from_bytes but  *)
(* fall into the `_` arm of the dispatch and are skipped by size.          *)
TypedTags ==
    { Tag("V","E","R","S"), Tag("M","O","D","L"), Tag("S","E","Q","S"),
      Tag("G","L","B","S"), Tag("T","E","X","S"), Tag("M","T","L","S"),
      Tag("G","E","O","S"), Tag("G","E","O","A"), Tag("B","O","N","E"),
      Tag("H","E","L","P"), Tag("A","T","C","H"), Tag("P","I","V","T"),
      Tag("E","V","T","S"), Tag("C","L","I","D") }

ChunkTypeOf(tag) ==
    CASE tag = Tag("V","E","R","S") -> "VERS"
      [] tag = Tag("M","O","D","L") -> "MODL"
      [] tag = Tag("S","E","Q","S") -> "SEQS"
      [] tag = Tag("G","L","B","S") -> "GLBS"
      [] tag = Tag("T","E","X","S") -> "TEXS"
      [] tag = Tag("M","T","L","S") -> "MTLS"
      [] tag = Tag("G","E","O","S") -> "GEOS"
      [] tag = Tag("G","E","O","A") -> "GEOA"
      [] tag = Tag("B","O","N","E") -> "BONE"
      [] tag = Tag("H","E","L","P") -> "HELP"
      [] tag = Tag("A","T","C","H") -> "ATCH"
      [] tag = Tag("P","I","V","T") -> "PIVT"
      [] tag = Tag("E","V","T","S") -> "EVTS"
      [] tag = Tag("C","L","I","D") -> "CLID"
      [] OTHER -> "SKIP"

(* Vec::new() for the node table. *)
EmptyTable == [top |-> None, at |-> << >>]

(* A Model literal with version 0 and blend_time 0. *)
DefaultModelBlank ==
    [ version |-> 0,
      info |-> [ name |-> << >>, minimum_extent |-> None, maximum_extent |-> None,
                 bounds_radius |-> 0, blend_time |-> 0 ],
      sequences |-> << >>, global_sequences |-> << >>, textures |-> << >>,
      materials |-> << >>, geosets |-> << >>, geoset_anims |-> << >>,
      bones |-> << >>, helpers |-> << >>, attachments |-> << >>,
      pivot_points |-> << >>, event_objects |-> << >>, collision_shapes |-> << >>,
      cameras |-> << >>, lights |-> << >>, particle_emitters |-> << >>,
      particle_emitters2 |-> << >>, ribbon_emitters |-> << >>,
      texture_anims |-> << >>, nodes |-> EmptyTable ]

(* The MdxModel literal of parse_internal. *)
DefaultModel ==
    [ version |-> 800,
      info |-> [ name |-> << >>, minimum_extent |-> None, maximum_extent |-> None,
                 bounds_radius |-> 0, blend_time |-> 150 ],
      sequences |-> << >>, global_sequences |-> << >>, textures |-> << >>,
      materials |-> << >>, geosets |-> << >>, geoset_anims |-> << >>,
      bones |-> << >>, helpers |-> << >>, attachments |-> << >>,
      pivot_points |-> << >>, event_objects |-> << >>, collision_shapes |-> << >>,
      cameras |-> << >>, lights |-> << >>, particle_emitters |-> << >>,
      particle_emitters2 |-> << >>, ribbon_emitters |-> << >>,
      texture_anims |-> << >>, nodes |-> EmptyTable ]

---------------------------------------------------------------------------
(* `n` items of `width` bytes can be read one after the other from p. *)
ItemsFit(p, n, width) == p <= Len(data) /\ n <= (Len(data) - p) \div width

---------------------------------------------------------------------------
(* parse_internal, lines 358-367: the magic. *)
MagicOkAny(magic) == TRUE

MagicOk(magic) == magic = MDX_MAGIC

ReadMagic ==
    /\ pc = "start"
    /\ IF ~CanRead(pos, 4)
       THEN /\ pc' = "error"
            /\ pos' \in EofPos(pos)
            /\ UNCHANGED model
       ELSE IF MagicOk(KeywordAt(pos))
       THEN /\ pos' = pos + 4
            /\ model' = DefaultModel
            /\ pc' = "chunks"
       ELSE /\ pc' = "error"
            /\ pos' = pos + 4
            /\ UNCHANGED model
    /\ UNCHANGED <<data, chunk_type, start_pos, size, size_field_pos, rec_size,
                   cur, layers_left, rec_count, prev, stalls, headers, mpqVars>>

(* Every present node gets the first pivot point. *)
ApplyPivotsFirst(m) ==
    [m EXCEPT !.nodes.at =
        [k \in DOMAIN m.nodes.at |->
            IF k >= 0 /\ k < Len(m.pivot_points)
            THEN [m.nodes.at[k] EXCEPT !.pivot_point = Some(m.pivot_points[1])]
            ELSE m.nodes.at[k]]]

(* parse_internal, lines 461-468: bind pivot points to nodes by index. *)
ApplyPivots(m) ==
    [m EXCEPT !.nodes.at =
        [k \in DOMAIN m.nodes.at |->
            IF k >= 0 /\ k < Len(m.pivot_points)
            THEN [m.nodes.at[k] EXCEPT !.pivot_point = Some(m.pivot_points[k + 1])]
            ELSE m.nodes.at[k]]]

(* The framing loop when no tag can be read: break, post-pass, Ok(model). *)
FrameEnd ==
    /\ pc = "chunks"
    /\ ~CanRead(pos, 4)
    /\ pos' \in EofPos(pos)
    /\ model' = ApplyPivots(model)
    /\ pc' = "done"
    /\ UNCHANGED <<data, chunk_type, start_pos, size, size_field_pos, rec_size,
                   cur, layers_left, rec_count, prev, stalls, headers, mpqVars>>

(* The framing loop, lines 401-458: tag, chunk_size, dispatch. *)
FrameDispatch ==
    /\ pc = "chunks"
    /\ CanRead(pos, 4)
    /\ IF CanRead(pos + 4, 4)
       THEN /\ chunk_type' = ChunkTypeOf(KeywordAt(pos))
            /\ size' = U32At(pos + 4)
            /\ start_pos' = pos + 8
            /\ pos' = pos + 8
            /\ pc' = chunk_type'
            /\ rec_count' = 0
            /\ stalls' = 0
            /\ headers' = Append(headers, pos)
       ELSE /\ pc' = "error"
            /\ pos' \in EofPos(pos + 4)
            /\ UNCHANGED <<chunk_type, start_pos, size, rec_count, stalls, headers>>
    /\ UNCHANGED <<data, model, size_field_pos, rec_size, cur, layers_left, prev, mpqVars>>

(* Frame shared by the chunk parsers that touch only pos, model and pc. *)
ChunkFrame ==
    UNCHANGED <<data, chunk_type, start_pos, size, size_field_pos, rec_size,
                cur, layers_left, rec_count, prev, stalls, headers, mpqVars>>

(* `?` on a read that failed at p: Err is returned, the cursor is where    *)
(* the failed read left it.                                                *)
Fail(p) ==
    /\ pc' = "error"
    /\ pos' \in EofPos(p)
    /\ UNCHANGED model

(* ChunkType::Vers, lines 412-414. *)
ParseVers ==
    /\ pc = "VERS"
    /\ IF CanRead(pos, 4)
       THEN /\ model' = [model EXCEPT !.version = U32Field(pos)]
            /\ pos' = pos + 4
            /\ pc' = "chunks"
       ELSE Fail(pos)
    /\ ChunkFrame

(* read_extent at p: (bounds_radius, Some(min), Some(max)), 28 bytes. *)
ExtentAt(p) ==
    [ bounds_radius |-> F32At(p),
      minimum_extent |-> Some(Vec3At(p + 4)),
      maximum_extent |-> Some(Vec3At(p + 16)) ]

(* parse_model_info: name(336), one u32 whose read error is ignored,       *)
(* extent(28), blend_time.  When the ignored read fails the cursor is at   *)
(* most 3 bytes before the end, so read_extent fails.                      *)
ParseModl ==
    /\ pc = "MODL"
    /\ IF CanRead(pos, 336 + 4 + 28 + 4)
       THEN /\ model' = [model EXCEPT !.info =
                            [ name |-> StringAt(pos, 336),
                              bounds_radius |-> ExtentAt(pos + 340).bounds_radius,
                              minimum_extent |-> ExtentAt(pos + 340).minimum_extent,
                              maximum_extent |-> ExtentAt(pos + 340).maximum_extent,
                              blend_time |-> U32Field(pos + 368) ]]
            /\ pos' = pos + 372
            /\ pc' = "chunks"
       ELSE Fail(FirstShort(pos, <<336, 4, 4, 4, 4, 4, 4, 4, 4, 4>>))
    /\ ChunkFrame

(* parse_global_sequences: size / 4 u32s. *)
ParseGlbs ==
    /\ pc = "GLBS"
    /\ LET count == size \div 4
       IN  IF ItemsFit(pos, count, 4)
           THEN /\ model' = [model EXCEPT !.global_sequences =
                                @ \o [i \in 1..count |-> U32Field(pos + 4 * (i - 1))]]
                /\ pos' = pos + 4 * count
                /\ pc' = "chunks"
           ELSE Fail(FirstShortItem(pos, 4))
    /\ ChunkFrame

RECURSIVE FirstNonNull(_, _)
FirstNonNull(bytes, i) ==
    IF i > Len(bytes) THEN Len(bytes)
    ELSE IF bytes[i] # 0 THEN i - 1
    ELSE FirstNonNull(bytes, i + 1)

(* The path of a texture: leading nulls stripped, then cut at the first    *)
(* null, then decoded lossily (lines 549-558).                             *)
TexturePath(bytes) ==
    LET start_idx == FirstNonNull(bytes, 1)
        rest == SubSeq(bytes, start_idx + 1, Len(bytes))
    IN  from_utf8_lossy(SubSeq(rest, 1, FirstNull(rest, 1)))

TextureAt(p) ==
    [ replaceable_id |-> U32Field(p),
      path |-> TexturePath(BytesAt(p + 4, 256)),
      flags |-> U32Field(p + 264) ]

(* parse_textures: size / 268 records of 268 bytes. *)
ParseTexs ==
    /\ pc = "TEXS"
    /\ LET texture_count == size \div 268
       IN  IF ItemsFit(pos, texture_count, 268)
           THEN /\ model' = [model EXCEPT !.textures =
                                @ \o [i \in 1..texture_count |-> TextureAt(pos + 268 * (i - 1))]]
                /\ pos' = pos + 268 * texture_count
                /\ pc' = "chunks"
           ELSE Fail(FirstShort(FirstShortItem(pos, 268), <<4, 256, 4, 4>>))
    /\ ChunkFrame

(* parse_pivot_points: size / 12 Vec3s. *)
ParsePivt ==
    /\ pc = "PIVT"
    /\ LET count == size \div 12
       IN  IF ItemsFit(pos, count, 12)
           THEN /\ model' = [model EXCEPT !.pivot_points =
                                @ \o [i \in 1..count |-> Vec3At(pos + 12 * (i - 1))]]
                /\ pos' = pos + 12 * count
                /\ pc' = "chunks"
           ELSE Fail(FirstShortItem(pos, 4))
    /\ ChunkFrame

(* The `_` arm, lines 454-457: seek(SeekFrom::Current(chunk_size)).  The   *)
(* cursor may be placed past the end of the buffer; seek does not fail.    *)
SkipChunk ==
    /\ pc = "SKIP"
    /\ pos' = pos + size
    /\ pc' = "chunks"
    /\ UNCHANGED model
    /\ ChunkFrame

(* The record loops `while self.cursor.position() < start_pos + size`. *)
RecordLoops == {"SEQS", "MTLS", "GEOS", "GEOA", "BONE", "HELP", "ATCH", "EVTS", "CLID"}

LoopCond == pos < start_pos + size

LoopExit ==
    /\ pc \in RecordLoops
    /\ ~LoopCond
    /\ pc' = "chunks"
    /\ UNCHANGED <<pos, model>>
    /\ ChunkFrame

(* An iteration that ends with the cursor where it began is followed by    *)
(* the same iteration, for ever: every loop runs as long as its condition  *)
(* holds, no loop counts.  Each repetition pushes one more record.  The    *)
(* repetitions are followed MaxStalls times; what they end in is           *)
(* LoopForever.                                                            *)
MaxStalls == 3

LoopStep(loop) ==
    /\ pc = loop
    /\ LoopCond
    /\ stalls < MaxStalls

(* The loop in hand repeats one iteration without end: its list grows      *)
(* until the allocator refuses the push and the process is aborted (or     *)
(* killed); parse does not return.                                         *)
LoopForever ==
    /\ pc \in RecordLoops
    /\ LoopCond
    /\ stalls >= MaxStalls
    /\ pc' = "abort"
    /\ UNCHANGED <<pos, model, stalls>>
    /\ UNCHANGED <<data, chunk_type, start_pos, size, size_field_pos, rec_size,
                   cur, layers_left, rec_count, prev, headers, mpqVars>>

RecordFrame ==
    /\ rec_count' = rec_count + 1
    /\ stalls' = IF pc' = pc /\ pos' = pos THEN stalls + 1 ELSE stalls
    /\ UNCHANGED <<data, chunk_type, start_pos, size, size_field_pos, rec_size,
                   cur, layers_left, prev, headers, mpqVars>>

RecordFail(p) ==
    /\ pc' = "error"
    /\ pos' \in EofPos(p)
    /\ UNCHANGED model

---------------------------------------------------------------------------
(* parse_sequences: one 132-byte record per iteration. *)
SequenceAt(p) ==
    [ name |-> StringAt(p, 80),
      interval |-> <<U32Field(p + 80), U32Field(p + 84)>>,
      move_speed |-> F32At(p + 88),
      non_looping |-> I32At(p + 92) # 0,
      rarity |-> F32At(p + 96),
      minimum_extent |-> ExtentAt(p + 104).minimum_extent,
      maximum_extent |-> ExtentAt(p + 104).maximum_extent,
      bounds_radius |-> ExtentAt(p + 104).bounds_radius ]

ParseSequence ==
    /\ LoopStep("SEQS")
    /\ IF CanRead(pos, 132)
       THEN /\ model' = [model EXCEPT !.sequences = Append(@, SequenceAt(pos))]
            /\ pos' = pos + 132
            /\ UNCHANGED pc
       ELSE RecordFail(FirstShort(pos, <<80, 4, 4, 4, 4, 4, 4, 4, 4, 4, 4, 4, 4, 4>>))
    /\ RecordFrame

(* parse_geoset_anims: one 28-byte record per iteration; the leading       *)
(* anim_size is read and not used.                                         *)
GeosetAnimAt(p) ==
    [ geoset_id |-> IF I32At(p + 24) = NONE THEN -1 ELSE I32At(p + 24),
      alpha |-> F32At(p + 4),
      color |-> Some([x |-> F32At(p + 12), y |-> F32At(p + 16), z |-> F32At(p + 20)]),
      flags |-> U32Field(p + 8) ]

ParseGeosetAnim ==
    /\ LoopStep("GEOA")
    /\ IF CanRead(pos, 28)
       THEN /\ model' = [model EXCEPT !.geoset_anims = Append(@, GeosetAnimAt(pos))]
            /\ pos' = pos + 28
            /\ UNCHANGED pc
       ELSE RecordFail(FirstShortItem(pos, 4))
    /\ RecordFrame

---------------------------------------------------------------------------
(* parse_node.                                                             *)

(* if v == NONE { None } else { Some(v as u32) } *)
OptU32(v) == IF v = NONE THEN None ELSE Some(AsU32(v))

(* if v == NONE { None } else { Some(v) } *)
OptI32(v) == IF v = NONE THEN None ELSE Some(v)

(* The Node literal of lines 809-817, from the 96 bytes at p. *)
NodeAt(p) ==
    [ name |-> StringAt(p + 4, 80),
      object_id |-> OptU32(I32At(p + 84)),
      parent |-> OptU32(I32At(p + 88)),
      pivot_point |-> None,
      flags |-> U32Field(p + 92),
      geoset_id |-> None,
      geoset_anim_id |-> None ]

(* Where parse_node leaves the cursor: node_start_pos + size. *)
NodeEnd(p) == p + U32At(p)

(* Lines 822-827: `while nodes.len() <= id { push(None) }`, then           *)
(* nodes[id] = Some(node.clone()).                                         *)
(* a < b as u32, for the i32s that cast to them. *)
ULess(a, b) == IF a >= 0 THEN b < 0 \/ a < b ELSE b < 0 /\ a < b

(* nodes.len() <= id: the push loop runs and the Vec has to grow. *)
TableGrows(nodes, id) == nodes.top = None \/ ULess(Unwrap(nodes.top), id)

(* The table is grown to id + 2 entries. *)
RegisterOneMore(nodes, id, node) ==
    [ top |-> IF TableGrows(nodes, id) THEN Some(id + 1) ELSE nodes.top,
      at |-> [k \in DOMAIN nodes.at \cup {id} |->
                IF k = id THEN node ELSE nodes.at[k]] ]

Register(nodes, id, node) ==
    [ top |-> IF TableGrows(nodes, id) THEN Some(id) ELSE nodes.top,
      at |-> [k \in DOMAIN nodes.at \cup {id} |->
                IF k = id THEN node ELSE nodes.at[k]] ]

(* parse_node at p with the node table `nodes`, the outcomes it can have:  *)
(*   st "error": one of the reads failed, the one at pos;                  *)
(*   st "ok": the node, the table and the cursor after the call;           *)
(*   st "abort": the push loop had to grow the table and the allocator     *)
(*     refused (an entry takes 80 bytes, an object_id of 2^30 asks for 80  *)
(*     GiB): the process is aborted, parse returns nothing.  Whether the   *)
(*     table is granted depends on the machine, for every id.              *)
ParseNode(nodes, p) ==
    IF ~CanRead(p, 96)
    THEN {[st |-> "error", pos |-> FirstShort(p, <<4, 80, 4, 4, 4>>)]}
    ELSE LET node == NodeAt(p)
             id == I32At(p + 84)
         IN  IF node.object_id = None
             THEN {[st |-> "ok", pos |-> NodeEnd(p), node |-> node, nodes |-> nodes]}
             ELSE {[st |-> "ok", pos |-> NodeEnd(p), node |-> node,
                    nodes |-> Register(nodes, id, node)]}
                  \cup (IF TableGrows(nodes, id) THEN {[st |-> "abort"]} ELSE {})

(* `?` on a parse_node that did not return a node: Err with the cursor     *)
(* where the failed read left it, or no return at all.                     *)
NodeFail(r) ==
    /\ pc' = r.st
    /\ pos' \in (IF r.st = "error" THEN EofPos(r.pos) ELSE {pos})
    /\ UNCHANGED model

(* parse_bones: a node, then geoset_id and geoset_anim_id set on the       *)
(* returned copy only.                                                     *)
BoneOf(node, p) ==
    [node EXCEPT !.geoset_id = OptI32(I32At(p)),
                 !.geoset_anim_id = OptI32(I32At(p + 4))]

ParseBone ==
    /\ LoopStep("BONE")
    /\ \E r \in ParseNode(model.nodes, pos) :
           IF r.st = "ok"
           THEN IF CanRead(r.pos, 8)
                THEN /\ model' = [model EXCEPT !.nodes = r.nodes,
                                               !.bones = Append(@, BoneOf(r.node, r.pos))]
                     /\ pos' = r.pos + 8
                     /\ UNCHANGED pc
                ELSE RecordFail(FirstShortItem(r.pos, 4))
           ELSE NodeFail(r)
    /\ RecordFrame

(* parse_helpers. *)
ParseHelper ==
    /\ LoopStep("HELP")
    /\ \E r \in ParseNode(model.nodes, pos) :
           IF r.st = "ok"
           THEN /\ model' = [model EXCEPT !.nodes = r.nodes,
                                          !.helpers = Append(@, r.node)]
                /\ pos' = r.pos
                /\ UNCHANGED pc
           ELSE NodeFail(r)
    /\ RecordFrame

(* parse_attachments: attachment_size (unused), node, path(256), one       *)
(* skipped u32, attachment_id.                                             *)
ParseAttachment ==
    /\ LoopStep("ATCH")
    /\ IF ~CanRead(pos, 4) THEN RecordFail(pos)
       ELSE \E r \in ParseNode(model.nodes, pos + 4) :
                IF r.st = "ok"
                THEN IF CanRead(r.pos, 264)
                     THEN /\ model' = [model EXCEPT
                                !.nodes = r.nodes,
                                !.attachments = Append(@,
                                    [ node |-> r.node,
                                      path |-> StringAt(r.pos, 256),
                                      attachment_id |-> U32Field(r.pos + 260) ])]
                          /\ pos' = r.pos + 264
                          /\ UNCHANGED pc
                     ELSE RecordFail(FirstShort(r.pos, <<256, 4, 4>>))
                ELSE NodeFail(r)
    /\ RecordFrame

(* parse_event_objects: node, KEVT, count, global_seq_id, count u32s. *)
ParseEventObject ==
    /\ LoopStep("EVTS")
    /\ \E r \in ParseNode(model.nodes, pos) :
           IF r.st = "ok"
           THEN IF /\ CanRead(r.pos, 12)
                   /\ KeywordAt(r.pos) = Tag("K","E","V","T")
                   /\ ItemsFit(r.pos + 12, U32At(r.pos + 4), 4)
                THEN LET n == U32At(r.pos + 4)
                     IN  /\ model' = [model EXCEPT
                                !.nodes = r.nodes,
                                !.event_objects = Append(@,
                                    [ node |-> r.node,
                                      event_track |->
                                         [i \in 1..n |-> U32Field(r.pos + 12 + 4 * (i - 1))] ])]
                         /\ pos' = r.pos + 12 + 4 * n
                         /\ UNCHANGED pc
                ELSE IF ~CanRead(r.pos, 4) THEN RecordFail(r.pos)
                ELSE IF KeywordAt(r.pos) # Tag("K","E","V","T")
                THEN \* return Err("Expected KEVT"): no read failed
                     /\ pc' = "error"
                     /\ pos' = r.pos + 4
                     /\ UNCHANGED model
                ELSE RecordFail(FirstShortItem(r.pos + 4, 4))
           ELSE NodeFail(r)
    /\ RecordFrame

(* parse_collision_shapes: node, shape, 6 floats for shape 0 and 3         *)
(* otherwise, a radius for shape 2.                                        *)
ParseCollisionShape ==
    /\ LoopStep("CLID")
    /\ \E r \in ParseNode(model.nodes, pos) :
           IF r.st = "ok"
           THEN IF ~CanRead(r.pos, 4) THEN RecordFail(r.pos)
                ELSE LET shape == I32At(r.pos)
                         vertex_count == IF shape = 0 THEN 6 ELSE 3
                         floats == vertex_count + (IF shape = 2 THEN 1 ELSE 0)
                     IN  IF CanRead(r.pos + 4, 4 * floats)
                         THEN /\ model' = [model EXCEPT
                                    !.nodes = r.nodes,
                                    !.collision_shapes = Append(@,
                                        [ node |-> r.node,
                                          shape |-> AsU32(shape),
                                          vertices |-> [i \in 1..vertex_count |->
                                                          F32At(r.pos + 4 * i)],
                                          radius |-> IF shape = 2
                                                     THEN Some(F32At(r.pos + 4 + 4 * vertex_count))
                                                     ELSE None ])]
                              /\ pos' = r.pos + 4 + 4 * floats
                              /\ UNCHANGED pc
                         ELSE RecordFail(FirstShortItem(r.pos + 4, 4))
           ELSE NodeFail(r)
    /\ RecordFrame

---------------------------------------------------------------------------
(* parse_materials, one record in three steps: the head (size,             *)
(* priority_plane, render_mode, the LAYS keyword and count), one layer     *)
(* per step, then the push and the seek that end the record.               *)

LayerAt(p) ==
    [ filter_mode |-> U32Field(p + 4),
      shading |-> U32Field(p + 8),
      texture_id |-> I32At(p + 12),
      coord_id |-> U32Field(p + 20),
      alpha |-> F32At(p + 24) ]

(* Where the cursor is put after a layer whose size field is at p:         *)
(* layer_start + layer_size, with layer_start the position after the size  *)
(* field (lines 597-598, 616).                                             *)
LayerEnd(p) == (p + 4) + U32At(p)

(* The bound of the `if` that guards the LAYS read (lines 581, 590):       *)
(* material_start + material_size, material_start being the position       *)
(* after the size field.                                                   *)
LaysBound(sfp, material_size) == (sfp + 4) + material_size

(* Where the cursor is put after a material or geoset record: lines 632    *)
(* and 763, size_field_pos + the record's size.                            *)
RecordEndExclusive(sfp, record_size) == (sfp + 4) + record_size

RecordEnd(sfp, record_size) == sfp + record_size

MaterialBegin ==
    /\ LoopStep("MTLS")
    /\ IF ~CanRead(pos, 12)
       THEN /\ pc' = "error"
            /\ pos' \in EofPos(FirstShortItem(pos, 4))
            /\ UNCHANGED <<size_field_pos, rec_size, cur, layers_left>>
       ELSE LET material_size == U32At(pos)
                after_head == pos + 12
                head == [ priority_plane |-> U32Field(pos + 4),
                          render_mode |-> U32Field(pos + 8),
                          layers |-> << >> ]
            IN  IF after_head < LaysBound(pos, material_size)
                THEN IF ~CanRead(after_head, 4)
                     THEN /\ pc' = "error"
                          /\ pos' \in EofPos(after_head)
                          /\ UNCHANGED <<size_field_pos, rec_size, cur, layers_left>>
                     ELSE IF KeywordAt(after_head) = Tag("L","A","Y","S")
                     THEN IF ~CanRead(after_head + 4, 4)
                          THEN /\ pc' = "error"
                               /\ pos' \in EofPos(after_head + 4)
                               /\ UNCHANGED <<size_field_pos, rec_size, cur, layers_left>>
                          ELSE /\ pc' = "MTLS_layers"
                               /\ pos' = after_head + 8
                               /\ size_field_pos' = pos
                               /\ rec_size' = material_size
                               /\ cur' = head
                               /\ layers_left' = U32At(after_head + 4)
                     ELSE \* not LAYS: seek(SeekFrom::Current(-4))
                          /\ pc' = "MTLS_layers"
                          /\ pos' = after_head
                          /\ size_field_pos' = pos
                          /\ rec_size' = material_size
                          /\ cur' = head
                          /\ layers_left' = 0
                ELSE /\ pc' = "MTLS_layers"
                     /\ pos' = after_head
                     /\ size_field_pos' = pos
                     /\ rec_size' = material_size
                     /\ cur' = head
                     /\ layers_left' = 0
    /\ UNCHANGED <<data, model, chunk_type, start_pos, size, rec_count, prev, stalls, headers, mpqVars>>

MaterialLayer ==
    /\ pc = "MTLS_layers"
    /\ layers_left > 0
    /\ IF CanRead(pos, 28)
       THEN /\ cur' = [cur EXCEPT !.layers = Append(@, LayerAt(pos))]
            /\ pos' = LayerEnd(pos)
            /\ layers_left' = layers_left - 1
            /\ UNCHANGED pc
       ELSE /\ pc' = "error"
            /\ pos' \in EofPos(FirstShortItem(pos, 4))
            /\ UNCHANGED <<cur, layers_left>>
    /\ UNCHANGED <<data, model, chunk_type, start_pos, size, size_field_pos,
                   rec_size, rec_count, prev, stalls, headers, mpqVars>>

MaterialEnd ==
    /\ pc = "MTLS_layers"
    /\ layers_left = 0
    /\ model' = [model EXCEPT !.materials = Append(@, cur)]
    /\ pos' = RecordEnd(size_field_pos, rec_size)
    /\ pc' = "MTLS"
    /\ rec_count' = rec_count + 1
    /\ stalls' = IF pos' = size_field_pos THEN stalls + 1 ELSE stalls
    /\ UNCHANGED <<data, chunk_type, start_pos, size, size_field_pos, rec_size,
                   cur, layers_left, prev, headers, mpqVars>>

---------------------------------------------------------------------------
(* parse_geosets, one record in steps: the head (size field, empty         *)
(* geoset), one sub-chunk per step, then bounds, push and seek.            *)

EmptyGeoset ==
    [ vertices |-> << >>, normals |-> << >>, uvs |-> << >>, faces |-> << >>,
      vertex_groups |-> << >>, material_id |-> 0, selection_group |-> 0,
      bounds |-> [ min |-> [x |-> 0, y |-> 0, z |-> 0],
                   max |-> [x |-> 0, y |-> 0, z |-> 0] ] ]

GeosetBegin ==
    /\ LoopStep("GEOS")
    /\ IF CanRead(pos, 4)
       THEN /\ size_field_pos' = pos
            /\ rec_size' = U32At(pos)
            /\ pos' = pos + 4
            /\ cur' = EmptyGeoset
            /\ pc' = "GEOS_sub"
       ELSE /\ pc' = "error"
            /\ pos' \in EofPos(pos)
            /\ UNCHANGED <<size_field_pos, rec_size, cur>>
    /\ UNCHANGED <<data, model, chunk_type, start_pos, size, layers_left,
                   rec_count, prev, stalls, headers, mpqVars>>

(* The bound of the sub-chunk loop (lines 646, 663): geoset_start +        *)
(* geoset_size, geoset_start being the position after the size field.      *)
SubLoopBound(sfp, geoset_size) == (sfp + 4) + geoset_size

SubLoopCond == pos < SubLoopBound(size_field_pos, rec_size)

(* Item width of the sub-chunks that are skipped by a relative seek. *)
SkipWidth(tag) ==
    CASE tag = Tag("P","T","Y","P") -> 4
      [] tag = Tag("P","C","N","T") -> 4
      [] tag = Tag("M","T","G","C") -> 4
      [] tag = Tag("M","A","T","S") -> 4
      [] tag = Tag("T","A","N","G") -> 16
      [] tag = Tag("S","K","I","N") -> 8

SkippedTags ==
    { Tag("P","T","Y","P"), Tag("P","C","N","T"), Tag("M","T","G","C"),
      Tag("M","A","T","S"), Tag("T","A","N","G"), Tag("S","K","I","N") }

(* The least count whose product with `width` does not fit in a u32:       *)
(* 2^32 / width, for the widths 4, 8 and 16.                               *)
WrapLimit(width) == 1073741824 \div (width \div 4)

(* `count * width` in u32 arithmetic when the build wraps on overflow. *)
WrappingMul(count, width) == (count % WrapLimit(width)) * width

GeosetFrame ==
    UNCHANGED <<data, model, chunk_type, start_pos, size, size_field_pos,
                rec_size, layers_left, rec_count, prev, stalls, headers, mpqVars>>

SubFail(p) ==
    /\ pc' = "error"
    /\ pos' \in EofPos(p)
    /\ UNCHANGED cur

GeosetSubChunk ==
    /\ pc = "GEOS_sub"
    /\ SubLoopCond
    /\ IF ~CanRead(pos, 4) THEN SubFail(pos)
       ELSE LET chunk_id == KeywordAt(pos)
                body == pos + 8
            IN  IF chunk_id \in
                     { Tag("V","R","T","X"), Tag("N","R","M","S"), Tag("P","V","T","X"),
                       Tag("G","N","D","X"), Tag("U","V","A","S") } \cup SkippedTags
                THEN IF ~CanRead(pos + 4, 4) THEN SubFail(pos + 4)
                     ELSE LET count == U32At(pos + 4)
                          IN CASE chunk_id = Tag("V","R","T","X") ->
                                 IF ItemsFit(body, count, 12)
                                 THEN /\ cur' = [cur EXCEPT !.vertices = @ \o
                                               [i \in 1..count |-> Vec3At(body + 12 * (i - 1))]]
                                      /\ pos' = body + 12 * count
                                      /\ UNCHANGED pc
                                 ELSE SubFail(FirstShortItem(body, 4))
                          [] chunk_id = Tag("N","R","M","S") ->
                                 IF ItemsFit(body, count, 12)
                                 THEN /\ cur' = [cur EXCEPT !.normals = @ \o
                                               [i \in 1..count |-> Vec3At(body + 12 * (i - 1))]]
                                      /\ pos' = body + 12 * count
                                      /\ UNCHANGED pc
                                 ELSE SubFail(FirstShortItem(body, 4))
                          [] chunk_id = Tag("P","V","T","X") ->
                                 IF ItemsFit(body, count \div 3, 6)
                                 THEN /\ cur' = [cur EXCEPT !.faces = @ \o
                                               [i \in 1..(count \div 3) |->
                                                  [indices |-> << U16At(body + 6 * (i - 1)),
                                                                  U16At(body + 6 * (i - 1) + 2),
                                                                  U16At(body + 6 * (i - 1) + 4) >>]]]
                                      /\ pos' = body + 6 * (count \div 3)
                                      /\ UNCHANGED pc
                                 ELSE SubFail(FirstShortItem(body, 2))
                          [] chunk_id = Tag("G","N","D","X") ->
                                 IF ItemsFit(body, count, 1)
                                 THEN /\ cur' = [cur EXCEPT !.vertex_groups = @ \o
                                               [i \in 1..count |-> U8At(body + (i - 1))]]
                                      /\ pos' = body + count
                                      /\ UNCHANGED pc
                                 ELSE SubFail(FirstShortItem(body, 1))
                          [] chunk_id = Tag("U","V","A","S") ->
                                 \* the leading u32 is taken as the number of (u, v)
                                 \* pairs of one set
                                 IF ItemsFit(body, count, 8)
                                 THEN /\ cur' = [cur EXCEPT !.uvs = Append(@,
                                               [i \in 1..count |->
                                                  [u |-> F32At(body + 8 * (i - 1)),
                                                   v |-> F32At(body + 8 * (i - 1) + 4)]])]
                                      /\ pos' = body + 8 * count
                                      /\ UNCHANGED pc
                                 ELSE SubFail(FirstShortItem(body, 4))
                          [] OTHER ->
                                 \* seek(SeekFrom::Current((count * width) as i64)):
                                 \* the u32 product panics when overflow checks are
                                 \* compiled in and wraps when they are not
                                 \/ /\ count >= WrapLimit(SkipWidth(chunk_id))
                                    /\ pc' = "panic"
                                    /\ UNCHANGED <<pos, cur>>
                                 \/ /\ pos' = body + WrappingMul(count, SkipWidth(chunk_id))
                                    /\ UNCHANGED <<pc, cur>>
                ELSE \* unknown sub-tag: break
                     /\ pc' = "GEOS_end"
                     /\ pos' = pos + 4
                     /\ UNCHANGED cur
    /\ GeosetFrame

(* f32::min and f32::max on bit patterns.  Key orders the patterns as the  *)
(* numbers they stand for; a NaN operand yields the other operand.         *)
F32IsNaN(b) ==
    LET mag == IF b >= 0 THEN b ELSE (b + 2147483647) + 1
    IN  mag > 2139095040

F32Key(b) == IF b >= 0 THEN b ELSE 0 - ((b + 2147483647) + 1)

(* The left operand, whatever the right one is. *)
F32MinLeft(a, b) == a

F32Min(a, b) ==
    IF F32IsNaN(a) THEN b
    ELSE IF F32IsNaN(b) THEN a
    ELSE IF F32Key(b) < F32Key(a) THEN b ELSE a

F32Max(a, b) ==
    IF F32IsNaN(a) THEN b
    ELSE IF F32IsNaN(b) THEN a
    ELSE IF F32Key(b) > F32Key(a) THEN b ELSE a

RECURSIVE FoldBounds(_, _, _)
FoldBounds(vertices, i, box) ==
    IF i > Len(vertices) THEN box
    ELSE FoldBounds(vertices, i + 1,
            [ min |-> [ x |-> F32Min(box.min.x, vertices[i].x),
                        y |-> F32Min(box.min.y, vertices[i].y),
                        z |-> F32Min(box.min.z, vertices[i].z) ],
              max |-> [ x |-> F32Max(box.max.x, vertices[i].x),
                        y |-> F32Max(box.max.y, vertices[i].y),
                        z |-> F32Max(box.max.z, vertices[i].z) ] ])

(* Lines 742-757. *)
WithBounds(geoset) ==
    IF geoset.vertices = << >> THEN geoset
    ELSE [geoset EXCEPT !.bounds =
            FoldBounds(geoset.vertices, 1,
                       [min |-> geoset.vertices[1], max |-> geoset.vertices[1]])]

GeosetEnd ==
    /\ \/ pc = "GEOS_sub" /\ ~SubLoopCond
       \/ pc = "GEOS_end"
    /\ model' = [model EXCEPT !.geosets = Append(@, WithBounds(cur))]
    /\ pos' = RecordEnd(size_field_pos, rec_size)
    /\ pc' = "GEOS"
    /\ rec_count' = rec_count + 1
    /\ stalls' = IF pos' = size_field_pos THEN stalls + 1 ELSE stalls
    /\ UNCHANGED <<data, chunk_type, start_pos, size, size_field_pos, rec_size,
                   cur, layers_left, prev, headers, mpqVars>>

---------------------------------------------------------------------------
(* Inputs: byte buffers in the wire layout the parsers above read.         *)

LE16(n) == <<n % 256, (n \div 256) % 256>>

(* Little-endian two's complement, for -2^31 <= n < 2^31. *)
LE32(n) ==
    <<n % 256, (n \div 256) % 256, (n \div 65536) % 256, (n \div 16777216) % 256>>

Zeros(n) == [i \in 1..n |-> 0]

Padded(bytes, n) == bytes \o Zeros(n - Len(bytes))

RECURSIVE Concat(_)
Concat(seqs) == IF seqs = << >> THEN << >> ELSE Head(seqs) \o Concat(Tail(seqs))

(* 1.0 as an f32 bit pattern (0.0 is 0) *)
F1 == 127 * 8388608

Vec3Bytes(x, y, z) == LE32(x) \o LE32(y) \o LE32(z)

(* A top-level chunk whose size field is `declared`. *)
ChunkSized(tag, declared, body) == tag \o LE32(declared) \o body

Chunk(tag, body) == ChunkSized(tag, Len(body), body)

VersChunk == Chunk(Tag("V","E","R","S"), LE32(800))

(* A node record: size, name(80), object_id, parent, flags, then `tracks`  *)
(* bytes of animation tracks.                                              *)
NodeBytes(node_size, name, object_id, parent, flags, tracks) ==
    LE32(node_size) \o Padded(name, 80) \o LE32(object_id) \o LE32(parent)
      \o LE32(flags) \o Zeros(tracks)

PlainNode(name, object_id) == NodeBytes(96, name, object_id, -1, 0, 0)

BoneBytes(node, geoset_id, geoset_anim_id) ==
    node \o LE32(geoset_id) \o LE32(geoset_anim_id)

AttachmentBytes(node) ==
    LE32(4 + Len(node) + 264) \o node \o Padded(<<Ascii("A")>>, 256) \o LE32(0) \o LE32(7)

EventBytes(node, stamps) ==
    node \o Tag("K","E","V","T") \o LE32(Len(stamps)) \o LE32(0)
      \o Concat([i \in 1..Len(stamps) |-> LE32(stamps[i])])

CollisionBytes(node, shape) ==
    node \o LE32(shape)
      \o Concat([i \in 1..((IF shape = 0 THEN 6 ELSE 3) + (IF shape = 2 THEN 1 ELSE 0))
                   |-> LE32(F1)])

SequenceBytes(name, from, to) ==
    Padded(name, 80) \o LE32(from) \o LE32(to) \o LE32(F1) \o LE32(1) \o LE32(0)
      \o LE32(0) \o LE32(F1) \o Vec3Bytes(0, 0, 0) \o Vec3Bytes(F1, F1, F1)

TextureBytes(path, lead) ==
    LE32(1) \o Zeros(lead) \o Padded(path, 256 - lead) \o LE32(0) \o LE32(3)

ModlBytes(name) ==
    Padded(name, 336) \o LE32(0) \o LE32(F1) \o Vec3Bytes(0, 0, 0)
      \o Vec3Bytes(F1, F1, F1) \o LE32(200)

GeosetAnimBytes(geoset_id) ==
    LE32(28) \o LE32(F1) \o LE32(0) \o LE32(F1) \o LE32(F1) \o LE32(F1) \o LE32(geoset_id)

(* A layer: size field `declared`, six fields, `tracks` bytes of tracks. *)
LayerBytes(declared, filter_mode, texture_id, tracks) ==
    LE32(declared) \o LE32(filter_mode) \o LE32(0) \o LE32(texture_id) \o LE32(-1)
      \o LE32(0) \o LE32(F1) \o Zeros(tracks)

(* A material: size field `declared`, priority_plane, render_mode, rest. *)
MaterialBytes(declared, rest) == LE32(declared) \o LE32(1) \o LE32(2) \o rest

LaysBytes(layers) == Tag("L","A","Y","S") \o LE32(Len(layers)) \o Concat(layers)

(* A geoset: size field `declared`, then its sub-chunks. *)
GeosetBytes(declared, subs) == LE32(declared) \o subs

(* A geoset whose inclusive size is the size of its sub-chunks + 4. *)
Geoset(subs) == GeosetBytes(Len(subs) + 4, subs)

SubChunk(tag, count, body) == tag \o LE32(count) \o body

Triangle ==
    SubChunk(Tag("V","R","T","X"), 3,
             Vec3Bytes(0, 0, 0) \o Vec3Bytes(F1, 0, 0) \o Vec3Bytes(0, F1, 0))
      \o SubChunk(Tag("P","V","T","X"), 3, LE16(0) \o LE16(1) \o LE16(2))

(* Scenario S4: GEOS with one inclusive-sized geoset, VRTX then PVTX. *)
S4Input == MDX_MAGIC \o Chunk(Tag("G","E","O","S"), Geoset(Triangle))

nA == <<Ascii("A")>>
nB == <<Ascii("B")>>

HELP == Tag("H","E","L","P")
BONE == Tag("B","O","N","E")
GEOS == Tag("G","E","O","S")
MTLS == Tag("M","T","L","S")
XXXX == Tag("X","X","X","X")

(* Scenario S6 and its mirror: a bone with object_id 2 and three pivots. *)
PivtChunk(n) ==
    Chunk(Tag("P","I","V","T"), Concat([i \in 1..n |-> Vec3Bytes(F1, 0, F1)]))

BoneChunk(object_id, geoset_id) ==
    Chunk(BONE, BoneBytes(PlainNode(nA, object_id), geoset_id, -1))

MagicInputs ==
    { << >>, <<77, 68>>, Tag("M","D","L","Y"), Zeros(8),
      Tag("M","D","L","Y") \o VersChunk,
      MDX_MAGIC, MDX_MAGIC \o <<65, 66>>, MDX_MAGIC \o Tag("V","E","R","S") \o <<4, 0>> }

(* Fixed-width chunks, with declared sizes that are and are not a multiple *)
(* of the record width; each followed by a VERS chunk or by nothing.       *)
FixedChunks ==
    { ChunkSized(Tag("V","E","R","S"), s, LE32(900) \o Zeros(s - 4)) : s \in {4, 8} }
    \cup { Chunk(Tag("G","L","B","S"), Zeros(s)) : s \in {0, 4, 6, 8} }
    \cup { Chunk(Tag("P","I","V","T"), Zeros(s)) : s \in {12, 14} }
    \cup { Chunk(Tag("T","E","X","S"), TextureBytes(nA, lead) \o Zeros(extra)) :
              lead \in {0, 3}, extra \in {0, 2} }
    \cup { Chunk(Tag("S","E","Q","S"), SequenceBytes(nA, 10, 20) \o rest) :
              rest \in {<< >>, SequenceBytes(nB, 30, 20), Zeros(1)} }
    \cup { Chunk(Tag("M","O","D","L"), ModlBytes(nA)) }
    \cup { Chunk(Tag("G","E","O","A"), GeosetAnimBytes(g)) : g \in {-1, 0} }
    \cup { ChunkSized(XXXX, s, Zeros(8)) : s \in {0, 8, 100} }
    \cup { Chunk(Tag("L","I","T","E"), PlainNode(nA, 0) \o Zeros(48)) }

FixedInputs ==
    { MDX_MAGIC \o c \o tail : c \in FixedChunks, tail \in {<< >>, VersChunk} }

(* Names and paths outside ASCII.  Not UTF-8: a stray FF, a lone           *)
(* continuation byte, scalars cut after one, two and three bytes, an       *)
(* overlong E0 80, a surrogate ED A0 80, F4 90 above U+10FFFF.  UTF-8:     *)
(* scalars of two, three and four bytes, U+FFFD itself.                    *)
Utf8Names ==
    { <<65, 255, 66>>, <<128>>, <<128, 97>>, <<195>>, <<226, 130>>, <<226, 130, 65>>,
      <<240, 159, 152>>, <<240, 159, 152, 65>>, <<224, 128, 128>>, <<237, 160, 128>>,
      <<244, 144, 128, 128>>, <<192, 128>>,
      <<195, 169>>, <<226, 130, 172>>, <<240, 159, 152, 128>>, <<239, 191, 189>>,
      <<65, 195, 169, 66>> }

Utf8Inputs ==
    { MDX_MAGIC \o Chunk(HELP, PlainNode(n, 0)) : n \in Utf8Names }
    \cup { MDX_MAGIC \o Chunk(Tag("T","E","X","S"), TextureBytes(n, lead)) :
               n \in Utf8Names, lead \in {0, 3} }
    \cup { MDX_MAGIC \o Chunk(Tag("S","E","Q","S"), SequenceBytes(n, 10, 20)) :
               n \in Utf8Names }
    \cup { MDX_MAGIC \o Chunk(Tag("M","O","D","L"), ModlBytes(n)) : n \in Utf8Names }

(* Node-bearing chunks. *)
NodeChunks ==
    { Chunk(HELP, NodeBytes(96 + t, nA, object_id, parent, 1, t)) :
          t \in {0, 4}, object_id \in {-1, 0, 2, -2}, parent \in {-1, 0} }
    \cup { Chunk(HELP, NodeBytes(0, nA, object_id, -1, 0, 0)) : object_id \in {-1, 1} }
    \cup { Chunk(HELP, PlainNode(nA, a) \o PlainNode(nB, b)) : a \in {0, 1}, b \in {-1, 1} }
    \cup { BoneChunk(object_id, geoset_id) : object_id \in {-1, 0, 2}, geoset_id \in {-1, 5} }
    \cup { Chunk(BONE, BoneBytes(NodeBytes(0, nA, 0, -1, 0, 0), 5, -1)) }
    \cup { Chunk(Tag("A","T","C","H"), AttachmentBytes(PlainNode(nA, object_id))) :
              object_id \in {-1, 1} }
    \cup { Chunk(Tag("E","V","T","S"), EventBytes(PlainNode(nA, 1), stamps)) :
              stamps \in {<< >>, <<5, 9>>} }
    \cup { Chunk(Tag("E","V","T","S"), PlainNode(nA, 1) \o XXXX \o Zeros(8)) }
    \cup { Chunk(Tag("C","L","I","D"), CollisionBytes(PlainNode(nA, 0), shape)) :
              shape \in 0..3 }

NodeInputs ==
    { MDX_MAGIC \o c \o tail : c \in NodeChunks, tail \in {<< >>, VersChunk} }
    \cup { MDX_MAGIC \o BoneChunk(2, 5) \o PivtChunk(n) : n \in {1, 3} }
    \cup { MDX_MAGIC \o PivtChunk(3) \o BoneChunk(2, -1) \o Chunk(HELP, PlainNode(nB, 0)) }
    \cup { MDX_MAGIC \o BoneChunk(1, 5) \o Chunk(HELP, PlainNode(nB, 1)) }

(* Materials: inclusive sizes, with and without layers. *)
MaterialRecords ==
    { MaterialBytes(12, << >>), MaterialBytes(0, << >>),
      MaterialBytes(12 + 8 + 28, LaysBytes(<<LayerBytes(28, 1, 0, 0)>>)),
      MaterialBytes(12 + 8 + 28, LaysBytes(<<LayerBytes(24, 1, -1, 0)>>)),
      MaterialBytes(12 + 8 + 32, LaysBytes(<<LayerBytes(28, 1, 0, 4)>>)),
      MaterialBytes(12 + 8 + 56,
                    LaysBytes(<<LayerBytes(28, 1, 0, 0), LayerBytes(28, 2, 1, 0)>>)),
      MaterialBytes(12 + 8 + 56,
                    LaysBytes(<<LayerBytes(24, 1, 0, 0), LayerBytes(24, 2, 1, 0)>>)),
      MaterialBytes(12 + 8, Tag("K","M","T","A") \o LE32(0)) }

MaterialInputs ==
    { MDX_MAGIC \o Chunk(MTLS, m) \o tail :
          m \in MaterialRecords, tail \in {<< >>, VersChunk} }
    \cup { MDX_MAGIC \o Chunk(MTLS, m1 \o m2) \o VersChunk :
          m1 \in MaterialRecords \ {MaterialBytes(0, << >>)},
          m2 \in {MaterialBytes(12, << >>)} }

(* Geosets. *)
GeosetSubs ==
    { Triangle,
      SubChunk(Tag("N","R","M","S"), 1, Vec3Bytes(0, 0, F1)) \o Triangle,
      Triangle \o SubChunk(Tag("G","N","D","X"), 3, <<0, 0, 1>>),
      Triangle \o SubChunk(Tag("U","V","A","S"), 1, LE32(F1) \o LE32(0)),
      Triangle \o SubChunk(Tag("P","T","Y","P"), 1, LE32(4))
               \o SubChunk(Tag("P","C","N","T"), 1, LE32(3)),
      Triangle \o SubChunk(Tag("M","T","G","C"), 1, LE32(1))
               \o SubChunk(Tag("M","A","T","S"), 1, LE32(0)),
      Triangle \o SubChunk(Tag("T","A","N","G"), 1, Zeros(16))
               \o SubChunk(Tag("S","K","I","N"), 1, Zeros(8)),
      SubChunk(Tag("P","T","Y","P"), 1073741824, LE32(4)) \o Triangle,
      SubChunk(Tag("T","A","N","G"), 268435456, << >>) \o Triangle,
      XXXX \o Zeros(4) \o Triangle,
      << >> }

GeosetInputs ==
    { MDX_MAGIC \o Chunk(GEOS, Geoset(subs)) \o tail :
          subs \in GeosetSubs, tail \in {<< >>, VersChunk} }
    \cup { MDX_MAGIC \o Chunk(GEOS, Geoset(Triangle) \o Geoset(subs)) \o VersChunk :
          subs \in {Triangle, << >>} }
    \cup { MDX_MAGIC \o Chunk(GEOS, GeosetBytes(0, << >>)) \o tail :
          tail \in {<< >>, VersChunk} }

(* Every prefix of one input with several chunks. *)
Composite ==
    MDX_MAGIC \o VersChunk \o Chunk(XXXX, Zeros(3))
      \o Chunk(HELP, NodeBytes(100, nA, 0, -1, 0, 4)) \o PivtChunk(1)

PrefixInputs == { SubSeq(Composite, 1, n) : n \in 0..Len(Composite) }

(* Pivot points that differ from one another, in one or two PIVT chunks,   *)
(* before and after the node chunks.                                       *)
PivtRun(first, n) ==
    Chunk(Tag("P","I","V","T"),
          Concat([i \in 1..n |-> Vec3Bytes(first + i - 1, 0, F1)]))

PivotInputs ==
    { MDX_MAGIC \o PivtRun(1, 1) \o BoneChunk(2, -1)
                \o Chunk(HELP, PlainNode(nB, 0)) \o PivtRun(2, 1),
      MDX_MAGIC \o Chunk(HELP, PlainNode(nB, 1)) \o PivtRun(1, 3),
      MDX_MAGIC \o PivtRun(1, 2) \o Chunk(HELP, PlainNode(nA, 0) \o PlainNode(nB, 1)) }

(* -1.0, 2.0 and a quiet NaN as f32 bit patterns. *)
FM1 == F1 - 2147483647 - 1
F2 == 128 * 8388608
FNaN == 255 * 8388608 + 4194304

(* Geosets whose faces point outside their vertex list. *)
FaceInputs ==
    { MDX_MAGIC \o Chunk(GEOS, Geoset(subs)) \o VersChunk :
        subs \in
          { SubChunk(Tag("V","R","T","X"), 3,
                     Vec3Bytes(0, 0, 0) \o Vec3Bytes(F1, 0, 0) \o Vec3Bytes(0, F1, 0))
              \o SubChunk(Tag("P","V","T","X"), 3, LE16(0) \o LE16(1) \o LE16(idx)) :
            idx \in {2, 3, 7} }
          \cup { SubChunk(Tag("P","V","T","X"), 3, LE16(0) \o LE16(0) \o LE16(0)) } }

(* Geosets whose vertices come in two VRTX sub-chunks, with negative       *)
(* coordinates and a NaN.                                                  *)
BoundsInputs ==
    { MDX_MAGIC \o Chunk(GEOS, Geoset(
          SubChunk(Tag("V","R","T","X"), 2,
                   Vec3Bytes(F1, 0, 0) \o Vec3Bytes(FM1, F2, 0))
            \o SubChunk(Tag("V","R","T","X"), 2,
                        Vec3Bytes(0, FM1, F1) \o Vec3Bytes(last, 0, F2)))) \o VersChunk :
        last \in {0, F2, FNaN} }
    \cup { MDX_MAGIC \o Chunk(GEOS, Geoset(
              SubChunk(Tag("V","R","T","X"), 2,
                       Vec3Bytes(FNaN, F1, F1) \o Vec3Bytes(F2, FM1, F1)))) \o VersChunk }

(* Sentinel fields holding -2. *)
SentinelInputs ==
    { MDX_MAGIC \o Chunk(HELP, NodeBytes(96, nA, 0, -2, 0, 0)) \o VersChunk,
      MDX_MAGIC \o Chunk(BONE, BoneBytes(PlainNode(nA, 0), -2, 3)) \o VersChunk,
      MDX_MAGIC \o Chunk(Tag("G","E","O","A"), GeosetAnimBytes(-2)) \o VersChunk,
      MDX_MAGIC \o Chunk(MTLS, MaterialBytes(12 + 8 + 24,
                            LaysBytes(<<LayerBytes(24, 1, -2, 0)>>))) \o VersChunk }

(* A nested record whose declared size reaches beyond the end of the       *)
(* chunk that holds it: a node, a material, a geoset, a layer.             *)
OvershootChunks ==
    { ChunkSized(HELP, 96, NodeBytes(200, nA, 0, -1, 0, 0)),
      Chunk(MTLS, MaterialBytes(100, << >>)),
      Chunk(GEOS, GeosetBytes(200, Triangle)),
      Chunk(MTLS, MaterialBytes(12 + 8 + 24, LaysBytes(<<LayerBytes(500, 1, 0, 0)>>))) }

OvershootInputs ==
    { MDX_MAGIC \o c \o tail : c \in OvershootChunks, tail \in {<< >>, VersChunk} }

(* Chunks of the tags from_bytes knows and parse_internal has no parser    *)
(* for, each with one record that starts with a node of object_id 0.       *)
EmitterTags ==
    { Tag("C","A","M","S"), Tag("L","I","T","E"), Tag("P","R","E","M"),
      Tag("P","R","E","2"), Tag("R","I","B","B") }

EmitterInputs ==
    { MDX_MAGIC \o Chunk(tag, PlainNode(nA, 0) \o Zeros(48)) \o tail :
        tag \in EmitterTags, tail \in {<< >>, VersChunk} }

(* UVAS sub-chunks laid out as a set count followed by sets, each with its *)
(* own count and (u, v) pairs.                                             *)
UvSetBytes(pairs) ==
    LE32(Len(pairs)) \o Concat([i \in 1..Len(pairs) |-> LE32(pairs[i][1]) \o LE32(pairs[i][2])])

UvasInputs ==
    { MDX_MAGIC \o Chunk(GEOS, Geoset(Triangle \o
          SubChunk(Tag("U","V","A","S"), Len(sets),
                   Concat([i \in 1..Len(sets) |-> UvSetBytes(sets[i])])))) \o VersChunk :
        sets \in { << <<<<F1, 0>>>> >>,
                   << <<<<F1, 0>>>>, <<<<0, F1>>>> >>,
                   << <<<<F1, 0>>, <<0, F1>>, <<F1, F1>>>>, << >> >> } }

(* Record loops of more than MaxStalls iterations; a node table of 2^30   *)
(* + 1 entries.                                                            *)
LongLoopInputs ==
    { MDX_MAGIC \o Chunk(Tag("S","E","Q","S"),
                         Concat([i \in 1..n |-> SequenceBytes(nA, 1, 2)])) : n \in {4, 5} }
    \cup { MDX_MAGIC \o Chunk(Tag("G","E","O","A"),
                         Concat([i \in 1..5 |-> GeosetAnimBytes(i)])),
           MDX_MAGIC \o Chunk(HELP, Concat([i \in 1..4 |-> PlainNode(nA, 4 - i)])),
           MDX_MAGIC \o Chunk(MTLS, Concat([i \in 1..4 |-> MaterialBytes(16, Zeros(4))])),
           MDX_MAGIC \o Chunk(HELP, PlainNode(nA, 1073741824)) \o VersChunk }

Inputs ==
    MagicInputs \cup FixedInputs \cup NodeInputs \cup MaterialInputs
      \cup GeosetInputs \cup PrefixInputs \cup PivotInputs
      \cup FaceInputs \cup BoundsInputs \cup SentinelInputs
      \cup OvershootInputs \cup EmitterInputs \cup UvasInputs
      \cup Utf8Inputs \cup LongLoopInputs

---------------------------------------------------------------------------
(* lib.rs: the archive listing cache.  MPQ_CACHE is one                    *)
(* Mutex<Option<MpqCache>>; every `MPQ_CACHE.lock()` section is one step   *)
(* of the thread that runs it, and the steps of different threads          *)
(* interleave freely in between.  A listing is what one                    *)
(* Archive::open + read_file("(listfile)") produced; it carries, as        *)
(* history, the number of clears that had returned when it was read.       *)

NumThreads == 2

MaxCalls == 4

Threads == 1..NumThreads

Paths == {"war3.mpq", "patch.mpq"}

(* MpqCache::new(): no archive listed. *)
EmptyCache == [p \in Paths |-> None]

Idle ==
    [ op |-> "none", pc |-> "idle", path |-> "", files |-> None,
      started |-> 0, hit |-> FALSE, result |-> None ]

MpqInit ==
    /\ cache = None
    /\ call = [t \in Threads |-> Idle]
    /\ clears = 0
    /\ calls = 0

(* A thread enters load_mpq_archive(path). *)
StartLoad(t) ==
    /\ call[t].pc = "idle"
    /\ calls < MaxCalls
    /\ \E p \in Paths :
          call' = [call EXCEPT ![t] =
                      [Idle EXCEPT !.op = "load", !.pc = "init", !.path = p,
                                   !.started = clears]]
    /\ calls' = calls + 1
    /\ UNCHANGED <<cache, clears, parserVars>>

(* init_cache(): under the lock, create the cache if there is none. *)
InitCache(t) ==
    /\ call[t].pc = "init"
    /\ cache' = IF cache = None THEN Some(EmptyCache) ELSE cache
    /\ call' = [call EXCEPT ![t].pc = "lookup"]
    /\ UNCHANGED <<clears, calls, parserVars>>

(* Lines 47-55: under the lock, return a clone of the cached listing. *)
LoadLookup(t) ==
    /\ call[t].pc = "lookup"
    /\ IF cache # None /\ Unwrap(cache)[call[t].path] # None
       THEN call' = [call EXCEPT ![t].pc = "returned", ![t].hit = TRUE,
                                 ![t].result = Unwrap(cache)[call[t].path]]
       ELSE call' = [call EXCEPT ![t].pc = "open"]
    /\ UNCHANGED <<cache, clears, calls, parserVars>>

(* Lines 57-81, no lock held: Archive::open fails and the command returns  *)
(* Err, or the listing is read.                                            *)
LoadOpen(t) ==
    /\ call[t].pc = "open"
    /\ \/ call' = [call EXCEPT ![t].pc = "returned"]
       \/ call' = [call EXCEPT ![t].pc = "insert",
                               ![t].files = Some([path |-> call[t].path, read_at |-> clears])]
    /\ UNCHANGED <<cache, clears, calls, parserVars>>

(* cache.archives.insert(path, files.clone()) *)
InsertListing(archives, path, files) == [archives EXCEPT ![path] = files]

(* Lines 83-89: under the lock, insert the listing and return it. *)
LoadInsert(t) ==
    /\ call[t].pc = "insert"
    /\ cache' = IF cache # None
                THEN Some(InsertListing(Unwrap(cache), call[t].path, call[t].files))
                ELSE cache
    /\ call' = [call EXCEPT ![t].pc = "returned", ![t].result = call[t].files]
    /\ UNCHANGED <<clears, calls, parserVars>>

(* A thread enters clear_mpq_cache(). *)
StartClear(t) ==
    /\ call[t].pc = "idle"
    /\ calls < MaxCalls
    /\ call' = [call EXCEPT ![t] = [Idle EXCEPT !.op = "clear", !.pc = "clear"]]
    /\ calls' = calls + 1
    /\ UNCHANGED <<cache, clears, parserVars>>

(* clear_mpq_cache: under the lock, archives.clear(); then Ok(()). *)
Clear(t) ==
    /\ call[t].pc = "clear"
    /\ cache' = IF cache # None THEN Some(EmptyCache) ELSE cache
    /\ clears' = clears + 1
    /\ call' = [call EXCEPT ![t].pc = "returned"]
    /\ UNCHANGED <<calls, parserVars>>

(* The command's result has been handed to the caller. *)
Return(t) ==
    /\ call[t].pc = "returned"
    /\ call' = [call EXCEPT ![t] = Idle]
    /\ UNCHANGED <<cache, clears, calls, parserVars>>

---------------------------------------------------------------------------
(* MdxParser::new(data): the cursor at 0 over the buffer. *)
Init ==
    /\ data \in Inputs
    /\ pos = 0
    /\ pc = "start"
    /\ model = DefaultModel
    /\ chunk_type = "none"
    /\ start_pos = 0
    /\ size = 0
    /\ size_field_pos = 0
    /\ rec_size = 0
    /\ cur = << >>
    /\ layers_left = 0
    /\ rec_count = 0
    /\ prev = None
    /\ stalls = 0
    /\ headers = << >>
    /\ MpqInit

Next ==
    \/ ReadMagic
    \/ FrameEnd
    \/ FrameDispatch
    \/ ParseVers
    \/ ParseModl
    \/ ParseGlbs
    \/ ParseTexs
    \/ ParsePivt
    \/ SkipChunk
    \/ LoopExit
    \/ LoopForever
    \/ ParseSequence
    \/ ParseGeosetAnim
    \/ ParseBone
    \/ ParseHelper
    \/ ParseAttachment
    \/ ParseEventObject
    \/ ParseCollisionShape
    \/ MaterialBegin
    \/ MaterialLayer
    \/ MaterialEnd
    \/ GeosetBegin
    \/ GeosetSubChunk
    \/ GeosetEnd

Spec == Init /\ [][Next]_vars

---------------------------------------------------------------------------
(* A caller that parses a buffer and then parses the same buffer with one  *)
(* chunk of an untyped tag inserted where the first parse read the header  *)
(* of a chunk.                                                             *)

(* The positions between two chunks of the buffer just parsed: where the   *)
(* framing loop read a chunk header after the first one.                   *)
Boundaries == { headers[i] : i \in 2..Len(headers) }

InjectTags == { XXXX, Tag("G","N","D","X"), Tag("L","A","Y","S") }

InjectBodies == { << >>, <<1>>, Zeros(8) }

Inject ==
    /\ pc = "done"
    /\ prev = None
    /\ \E o \in Boundaries, tag \in InjectTags, body \in InjectBodies :
          data' = SubSeq(data, 1, o) \o Chunk(tag, body) \o SubSeq(data, o + 1, Len(data))
    /\ prev' = Some(model)
    /\ pos' = 0
    /\ pc' = "start"
    /\ model' = DefaultModel
    /\ chunk_type' = "none"
    /\ start_pos' = 0
    /\ size' = 0
    /\ size_field_pos' = 0
    /\ rec_size' = 0
    /\ cur' = << >>
    /\ layers_left' = 0
    /\ rec_count' = 0
    /\ stalls' = 0
    /\ headers' = << >>
    /\ UNCHANGED mpqVars

NextInject == Next \/ Inject

SpecInject == Init /\ [][NextInject]_vars

---------------------------------------------------------------------------
(* Threads that run load_mpq_archive and clear_mpq_cache concurrently; no  *)
(* parse is in progress.                                                   *)
InitMpq ==
    /\ data = << >>
    /\ pos = 0
    /\ pc = "start"
    /\ model = DefaultModel
    /\ chunk_type = "none"
    /\ start_pos = 0
    /\ size = 0
    /\ size_field_pos = 0
    /\ rec_size = 0
    /\ cur = << >>
    /\ layers_left = 0
    /\ rec_count = 0
    /\ prev = None
    /\ stalls = 0
    /\ headers = << >>
    /\ MpqInit

NextMpq ==
    \E t \in Threads :
        \/ StartLoad(t)
        \/ InitCache(t)
        \/ LoadLookup(t)
        \/ LoadOpen(t)
        \/ LoadInsert(t)
        \/ StartClear(t)
        \/ Clear(t)
        \/ Return(t)

SpecMpq == InitMpq /\ [][NextMpq]_vars

---------------------------------------------------------------------------
(* Properties.                                                             *)

Terminal == {"done", "error", "panic", "abort"}

HasMagic == Len(data) >= 4 /\ SubSeq(data, 1, 4) = Tag("M","D","L","X")

(* C1: for any byte input parse returns an error or a Model; it never      *)
(* panics and is never aborted, whatever the u32 counts and object ids.    *)
C1_NeverPanics == pc \notin {"panic", "abort"}

(* C2: every completed iteration of a record loop leaves the cursor        *)
(* strictly after the position at which the iteration started.             *)
C2_IterationAdvances ==
    [][ /\ (pc \in {"SEQS", "GEOA", "BONE", "HELP", "ATCH", "EVTS", "CLID"} /\ pc' = pc
              /\ rec_count' = rec_count + 1
              => pos' > pos)
        /\ (pc = "MTLS_layers" /\ pc' = "MTLS" => pos' > size_field_pos)
        /\ (pc \in {"GEOS_sub", "GEOS_end"} /\ pc' = "GEOS" => pos' > size_field_pos)
      ]_vars

(* C3: when the first four bytes are not MDLX (or there are fewer than     *)
(* four), parse ends in an error: no Model, no chunk dispatched, nothing   *)
(* consumed beyond the four bytes of the magic.                            *)
C3_BadMagicIsError ==
    ~HasMagic => /\ pc \in {"start", "error"}
                 /\ chunk_type = "none"
                 /\ pos <= 4

C3_Witness == pc = "error" /\ ~HasMagic /\ Len(data) >= 12

(* C4: when a Model is returned the cursor is at the end of the input,     *)
(* neither short of it nor beyond it.                                      *)
C4_CursorAtEnd == pc = "done" => pos = Len(data)

(* A Model returned after a chunk whose declared body reaches beyond the   *)
(* input was skipped by a seek past the end and the tag read that followed *)
(* failed there.                                                           *)
C4_Witness ==
    /\ pc = "done"
    /\ chunk_type = "SKIP"
    /\ start_pos + size > Len(data)
    /\ pos = Len(data)

(* C5: when the parser of a top-level chunk with body start b and size s   *)
(* has returned, the cursor is at b + s.                                   *)
C5_ChunkAbsorbsSize ==
    pc = "chunks" /\ chunk_type # "none" => pos = start_pos + size

(* C6: after a material or geoset record whose size field at p holds d,    *)
(* the cursor (where the next record of the chunk begins) is at p + d.     *)
C6_InclusiveFraming ==
    pc \in {"MTLS", "GEOS"} /\ rec_count > 0
        => pos = size_field_pos + U32At(size_field_pos)

C6_Witness ==
    /\ pc = "MTLS"
    /\ rec_count = 1
    /\ LoopCond
    /\ Len(cur.layers) = 2

(* C7: the S4 input (one geoset, VRTX then PVTX, last thing in the input)  *)
(* parses: no sub-tag is read at or after size_field_pos + geoset_size,    *)
(* no error, and the Model holds the one geoset with its bounds.           *)
C7_S4Parses ==
    data = S4Input =>
        /\ pc # "error"
        /\ (pc = "GEOS_sub" /\ SubLoopCond => pos < size_field_pos + rec_size)
        /\ (pc = "done" =>
              /\ Len(model.geosets) = 1
              /\ Len(model.geosets[1].vertices) = 3
              /\ Len(model.geosets[1].faces) = 1
              /\ model.geosets[1].bounds =
                    [ min |-> [x |-> 0, y |-> 0, z |-> 0],
                      max |-> [x |-> F1, y |-> F1, z |-> 0] ])

(* C8: the parse of the buffer with the inserted chunk, when it returns,   *)
(* returns a Model equal to the Model of the buffer without it.            *)
C8_UnknownTagTolerance ==
    prev # None /\ pc \in {"done", "error"} => pc = "done" /\ model = Unwrap(prev)

(* The nodes held in the entity lists, in one sequence. *)
EntityNodes ==
    model.bones \o model.helpers
      \o [i \in 1..Len(model.attachments) |-> model.attachments[i].node]
      \o [i \in 1..Len(model.event_objects) |-> model.event_objects[i].node]
      \o [i \in 1..Len(model.collision_shapes) |-> model.collision_shapes[i].node]

EqualButPivot(a, b) ==
    [a EXCEPT !.pivot_point = None] = [b EXCEPT !.pivot_point = None]

(* C9: in a returned Model, every entity node with object_id k has         *)
(* nodes[k] present and equal to it in all fields but pivot_point.         *)
C9_NodeTableConsistent ==
    pc = "done" =>
        \A i \in 1..Len(EntityNodes) :
            IsSome(EntityNodes[i].object_id) =>
                \E k \in DOMAIN model.nodes.at :
                    /\ Some(AsU32(k)) = EntityNodes[i].object_id
                    /\ EqualButPivot(model.nodes.at[k], EntityNodes[i])

(* The object ids of the parsed node records, as the records hold them. *)
ParsedIds ==
    { EntityNodes[i].object_id :
        i \in { j \in 1..Len(EntityNodes) : IsSome(EntityNodes[j].object_id) } }

(* The largest of a set of indices. *)
SetMax(S) == CHOOSE x \in S : \A y \in S : y = x \/ ULess(y, x)

(* C10: nodes[k] is present exactly when a node record with object_id k    *)
(* was parsed, and the table is 1 + the largest parsed id long (empty      *)
(* when no parsed node has an id).                                         *)
C10_NodeTableExact ==
    LET present == DOMAIN model.nodes.at
    IN  /\ { Some(AsU32(k)) : k \in present } = ParsedIds
        /\ \A k \in present : model.nodes.at[k].object_id = Some(AsU32(k))
        /\ model.nodes.top = IF present = {} THEN None ELSE Some(SetMax(present))

C10_Witness ==
    /\ pc = "done"
    /\ Len(model.bones) = 1
    /\ model.bones[1].object_id = Some(2)
    /\ model.nodes.top = Some(2)
    /\ DOMAIN model.nodes.at = {2}

(* C11: in a returned Model every present node at an index below the      *)
(* number of pivot points has the pivot point of that index, and every     *)
(* present node at a later index has none, wherever and however often      *)
(* PIVT occurs.                                                            *)
C11_PivotAlignment ==
    pc = "done" =>
        \A k \in DOMAIN model.nodes.at :
            model.nodes.at[k].pivot_point =
                IF k >= 0 /\ k < Len(model.pivot_points)
                THEN Some(model.pivot_points[k + 1])
                ELSE None

C11_Witness ==
    /\ pc = "done"
    /\ Len(model.pivot_points) = 2
    /\ model.pivot_points[1] # model.pivot_points[2]
    /\ model.nodes.top = Some(2)
    /\ DOMAIN model.nodes.at = {0, 2}
    /\ model.nodes.at[0].pivot_point = Some(model.pivot_points[1])
    /\ model.nodes.at[2].pivot_point = None

(* C12: in a returned Model every index of every face of every geoset is   *)
(* smaller than the number of vertices of that geoset.                     *)
C12_FaceValidity ==
    pc = "done" =>
        \A g \in 1..Len(model.geosets) :
            \A f \in 1..Len(model.geosets[g].faces) :
                \A k \in 1..3 :
                    model.geosets[g].faces[f].indices[k] < Len(model.geosets[g].vertices)

(* The values of component c of the vertices that are numbers. *)
Numbers(vertices, c) ==
    { vertices[i][c] : i \in { j \in 1..Len(vertices) : ~F32IsNaN(vertices[j][c]) } }

IsLeast(b, vals) == b \in vals /\ \A w \in vals : F32Key(b) <= F32Key(w)

IsGreatest(b, vals) == b \in vals /\ \A w \in vals : F32Key(b) >= F32Key(w)

(* C13: the bounds of every geoset of a returned Model are, component by   *)
(* component, the least and the greatest value over all its vertices (a    *)
(* NaN coordinate is not a number and does not take part), and the zero    *)
(* box when the geoset has no vertex.                                      *)
C13_BoundsAreAABB ==
    pc = "done" =>
        \A g \in 1..Len(model.geosets) :
            LET geoset == model.geosets[g]
            IN  IF geoset.vertices = << >>
                THEN geoset.bounds = EmptyGeoset.bounds
                ELSE \A c \in {"x", "y", "z"} :
                        LET vals == Numbers(geoset.vertices, c)
                        IN  vals # {} =>
                              /\ IsLeast(geoset.bounds.min[c], vals)
                              /\ IsGreatest(geoset.bounds.max[c], vals)

C13_Witness ==
    /\ pc = "done"
    /\ Len(model.geosets) = 1
    /\ Len(model.geosets[1].vertices) = 4
    /\ model.geosets[1].bounds.min = [x |-> FM1, y |-> FM1, z |-> 0]
    /\ model.geosets[1].bounds.max = [x |-> F2, y |-> F2, z |-> F2]
    /\ model.geosets[1].vertices[1] = [x |-> F1, y |-> 0, z |-> 0]

(* What a field of type i32 shows: it always holds a value. *)
Held(v) == Some(v)

(* The wire value w against an optional holding an i32. *)
DecodedI32(opt, w) == opt = (IF w = NONE THEN None ELSE Some(w))

(* The wire value w against an optional holding `w as u32`: the cast       *)
(* keeps the number exactly when w is not negative.                        *)
DecodedU32(opt, w) == IF w = NONE THEN opt = None ELSE w >= 0 /\ opt = Some(w)

Last(seq) == seq[Len(seq)]

(* C14: whenever a record is decoded, each of its sentinel fields is       *)
(* absent when the wire value is -1 and otherwise present with the wire    *)
(* value: node object_id and parent, bone geoset_id and geoset_anim_id,    *)
(* geoset-anim geoset_id, layer texture_id.                                *)
C14_SentinelDecoding ==
    [][ /\ (pc = "HELP" /\ Len(model'.helpers) = Len(model.helpers) + 1
              => /\ DecodedU32(Last(model'.helpers).object_id, I32At(pos + 84))
                 /\ DecodedU32(Last(model'.helpers).parent, I32At(pos + 88)))
        /\ (pc = "BONE" /\ Len(model'.bones) = Len(model.bones) + 1
              => /\ DecodedU32(Last(model'.bones).object_id, I32At(pos + 84))
                 /\ DecodedU32(Last(model'.bones).parent, I32At(pos + 88))
                 /\ DecodedI32(Last(model'.bones).geoset_id, I32At(NodeEnd(pos)))
                 /\ DecodedI32(Last(model'.bones).geoset_anim_id, I32At(NodeEnd(pos) + 4)))
        /\ (pc = "GEOA" /\ Len(model'.geoset_anims) = Len(model.geoset_anims) + 1
              => DecodedI32(Held(Last(model'.geoset_anims).geoset_id), I32At(pos + 24)))
        /\ (pc = "MTLS_layers" /\ layers_left' = layers_left - 1
              => DecodedI32(Held(Last(cur'.layers).texture_id), I32At(pos + 12)))
      ]_vars

(* C15: an input in which a node, material, geoset or layer declares a     *)
(* size that reaches beyond the end of its enclosing chunk never yields a  *)
(* Model.                                                                  *)
C15_OvershootIsError == data \in OvershootInputs => pc # "done"

(* Following the declared sizes of the chunks of d from offset o leads     *)
(* exactly to the end of d.                                                *)
RECURSIVE EndsOnChunkBoundary(_, _)
EndsOnChunkBoundary(d, o) ==
    IF o = Len(d) THEN TRUE
    ELSE IF o + 8 > Len(d) \/ d[o + 8] >= 128 THEN FALSE
    ELSE LET s == d[o + 5] + 256 * d[o + 6] + 65536 * d[o + 7] + 16777216 * d[o + 8]
         IN  IF s > Len(d) - (o + 8) THEN FALSE
             ELSE EndsOnChunkBoundary(d, o + 8 + s)

(* C16: a Model is returned only when the input ends right after the       *)
(* magic or right after the declared body of a top-level chunk.            *)
C16_ModelOnlyOnBoundary == pc = "done" => EndsOnChunkBoundary(data, 4)

(* The Model list a chunk of one of these tags is decoded into. *)
EmitterField(tag) ==
    CASE tag = Tag("C","A","M","S") -> "cameras"
      [] tag = Tag("L","I","T","E") -> "lights"
      [] tag = Tag("P","R","E","M") -> "particle_emitters"
      [] tag = Tag("P","R","E","2") -> "particle_emitters2"
      [] tag = Tag("R","I","B","B") -> "ribbon_emitters"

(* C17: in a returned Model, every CAMS, LITE, PREM, PRE2 or RIBB chunk    *)
(* with a record has filled its list, and the node of a LITE, PREM, PRE2   *)
(* or RIBB record with object_id 0 is at nodes[0].                         *)
C17_EmittersDecoded ==
    pc = "done" =>
        \A i \in 1..Len(headers) :
            LET o == headers[i]
            IN  KeywordAt(o) \in EmitterTags /\ U32At(o + 4) > 0 =>
                    /\ Len(model[EmitterField(KeywordAt(o))]) > 0
                    /\ (data \in EmitterInputs /\ KeywordAt(o) # Tag("C","A","M","S")
                          => 0 \in DOMAIN model.nodes.at)

(* The tag occurs in the input after the magic, followed by a size field. *)
Occurs(tag) == \E o \in 4..(Len(data) - 8) : KeywordAt(o) = tag

(* The tags whose parsers fill each list of the Model. *)
FieldTags ==
    [ sequences |-> {Tag("S","E","Q","S")},
      global_sequences |-> {Tag("G","L","B","S")},
      textures |-> {Tag("T","E","X","S")},
      materials |-> {MTLS},
      geosets |-> {GEOS},
      geoset_anims |-> {Tag("G","E","O","A")},
      bones |-> {BONE},
      helpers |-> {HELP},
      attachments |-> {Tag("A","T","C","H")},
      pivot_points |-> {Tag("P","I","V","T")},
      event_objects |-> {Tag("E","V","T","S")},
      collision_shapes |-> {Tag("C","L","I","D")},
      cameras |-> {Tag("C","A","M","S")},
      lights |-> {Tag("L","I","T","E")},
      particle_emitters |-> {Tag("P","R","E","M")},
      particle_emitters2 |-> {Tag("P","R","E","2")},
      ribbon_emitters |-> {Tag("R","I","B","B")},
      texture_anims |-> {Tag("T","X","A","N")},
      nodes |-> {BONE, HELP, Tag("A","T","C","H"), Tag("E","V","T","S"),
                 Tag("C","L","I","D")} ]

FieldIsEmpty(f) ==
    IF f = "nodes" THEN model.nodes = EmptyTable ELSE model[f] = << >>

IsDefaultInfo(info) ==
    /\ info.name = << >>
    /\ info.minimum_extent = None
    /\ info.maximum_extent = None
    /\ info.bounds_radius = 0
    /\ info.blend_time = 150

(* C18: the Model returned for the magic alone has version 800, the        *)
(* default ModelInfo (empty name, no extents, radius 0, blend_time 150)    *)
(* and only empty lists; and at any time a field or list of the Model is   *)
(* other than that only if the tag of its chunk occurs in the input.       *)
C18_DefaultUnlessChunk ==
    /\ pc = "done" /\ data = MDX_MAGIC =>
          /\ model.version = 800
          /\ IsDefaultInfo(model.info)
          /\ \A f \in DOMAIN FieldTags : FieldIsEmpty(f)
    /\ pc # "start" =>
          /\ (model.version # 800 => Occurs(Tag("V","E","R","S")))
          /\ (~IsDefaultInfo(model.info) => Occurs(Tag("M","O","D","L")))
          /\ \A f \in DOMAIN FieldTags :
                ~FieldIsEmpty(f) => \E tag \in FieldTags[f] : Occurs(tag)

C18_Witness ==
    /\ pc = "done"
    /\ data = MDX_MAGIC
    /\ model.version = 800
    /\ model.info.blend_time = 150
    /\ model.nodes = EmptyTable

(* C19: every Sequence of a returned Model has interval_end >=             *)
(* interval_start.                                                         *)
C19_IntervalOrdered ==
    pc = "done" =>
        \A i \in 1..Len(model.sequences) :
            model.sequences[i].interval[2] >= model.sequences[i].interval[1]

(* C20: a layer whose size field is at p and holds d is followed, at       *)
(* p + d, by the next layer or the end of the layer list.                  *)
C20_LayerSizeInclusive ==
    [][ pc = "MTLS_layers" /\ layers_left' = layers_left - 1
          => pos' = pos + U32At(pos) ]_vars

(* C21: a material whose inclusive size leaves no byte after              *)
(* priority_plane and render_mode (size 12 or less) is taken without a     *)
(* LAYS read: the step cannot fail, reads nothing beyond the 12 bytes and  *)
(* leaves the layer list empty.                                            *)
C21_NoLaysReadAtRecordEnd ==
    [][ pc = "MTLS" /\ LoopCond /\ stalls < MaxStalls
          /\ CanRead(pos, 12) /\ U32At(pos) <= 12
          => /\ pc' = "MTLS_layers"
             /\ pos' = pos + 12
             /\ layers_left' = 0 ]_vars

(* The UV set whose count field is at p, and the position after it. *)
UvSetAt(p) ==
    [i \in 1..U32At(p) |->
        [u |-> F32At(p + 4 + 8 * (i - 1)), v |-> F32At(p + 8 + 8 * (i - 1))]]

UvSetEnd(p) == p + 4 + 8 * U32At(p)

(* n UV sets one after the other from p: do they fit in the input, where   *)
(* do they end, what are they.                                             *)
RECURSIVE UvSetsFit(_, _)
UvSetsFit(p, n) ==
    IF n = 0 THEN TRUE
    ELSE /\ CanRead(p, 4)
         /\ data[p + 4] = 0
         /\ ItemsFit(p + 4, U32At(p), 8)
         /\ UvSetsFit(UvSetEnd(p), n - 1)

RECURSIVE UvSetsEnd(_, _)
UvSetsEnd(p, n) == IF n = 0 THEN p ELSE UvSetsEnd(UvSetEnd(p), n - 1)

RECURSIVE UvSetsAt(_, _)
UvSetsAt(p, n) == IF n = 0 THEN << >> ELSE <<UvSetAt(p)>> \o UvSetsAt(UvSetEnd(p), n - 1)

(* C22: a UVAS sub-chunk whose leading u32 is n and whose n sets are all   *)
(* in the input appends these n sets, each with its own count of (u, v)    *)
(* pairs, to geoset.uvs and leaves the cursor after the last of them.      *)
C22_UvasSets ==
    [][ pc = "GEOS_sub" /\ SubLoopCond /\ CanRead(pos, 8)
          /\ KeywordAt(pos) = Tag("U","V","A","S")
          /\ data[pos + 8] = 0
          /\ UvSetsFit(pos + 8, U32At(pos + 4))
          => /\ pc' = "GEOS_sub"
             /\ cur'.uvs = cur.uvs \o UvSetsAt(pos + 8, U32At(pos + 4))
             /\ pos' = UvSetsEnd(pos + 8, U32At(pos + 4)) ]_vars

(* C23: a skipped sub-chunk (PTYP, PCNT, MTGC, MATS, SKIN, TANG) with      *)
(* count n moves the cursor by exactly n times the item width after the    *)
(* count field, for every u32 n.                                           *)
C23_SkipIsCountTimesWidth ==
    [][ pc = "GEOS_sub" /\ SubLoopCond /\ CanRead(pos, 8)
          /\ KeywordAt(pos) \in SkippedTags
          => /\ pc' = "GEOS_sub"
             /\ (pos' - (pos + 8)) % SkipWidth(KeywordAt(pos)) = 0
             /\ (pos' - (pos + 8)) \div SkipWidth(KeywordAt(pos)) = U32At(pos + 4) ]_vars

(* C24: a load_mpq_archive call that returns a cache hit returns a        *)
(* listing that was read after every clear_mpq_cache that had returned     *)
(* when the call started.                                                  *)
C24_NoStaleHitAfterClear ==
    \A t \in Threads :
        call[t].pc = "returned" /\ call[t].hit
            => Unwrap(call[t].result).read_at >= call[t].started

====
